---- MODULE Spec2Model ----
(***************************************************************************)
(* flask_unittest: the per-test resource injection of AppTestCase,         *)
(* ClientTestCase and AppClientTestCase (src/flask_unittest/case.py).      *)
(*                                                                         *)
(* One case class is drawn in Init, one instance of it is constructed and  *)
(* run()/debug() are invoked on it, one after the other.  Every step of an *)
(* invocation that can raise, or that another step can be ordered against, *)
(* is an action of its own.                                                *)
(*                                                                         *)
(* Second specification, SpecSuite: LiveTestSuite and the host framework's *)
(* TestSuite (src/flask_unittest/suite.py) running a tree of tests, with   *)
(* the thread that serves the application.  Each specification leaves the  *)
(* other one's variables at rest.                                          *)
(***************************************************************************)
EXTENDS Integers, Sequences, FiniteSets, TLC

\* Invocations of run()/debug() made on the instance.
MaxRuns == 2

(***************************************************************************)
(* Values                                                                  *)
(***************************************************************************)
NoneVal == [t |-> "None"]

\* A Flask application object / an object that is not a Flask application.
Obj(type, n) == [t |-> type, id |-> n]

\* The FlaskClient app.test_client(use_cookies, **kwargs) builds.
FlaskClient(n, application, use_cookies) ==
    [t |-> "FlaskClient", id |-> n, app |-> application.id, use_cookies |-> use_cookies]

\* A generator object: `pos` is the next statement of the body to execute.
Generator == [t |-> "generator", pos |-> 1]

\* Statements of a create_app body.
Yield(type)  == [op |-> "yield", v |-> type]
Returns(type) == [op |-> "return", v |-> type]
Raise(e)     == [op |-> "raise", v |-> e]

(***************************************************************************)
(* The create_app functions a case class may define.  A generator function *)
(* is a sequence of yield/raise statements that ends by returning.         *)
(***************************************************************************)
CreateAppFunctions ==
    { [isgen |-> FALSE, body |-> <<Raise("NotImplementedError")>>],   \* not overridden
      [isgen |-> FALSE, body |-> <<Raise("CreateAppError")>>],
      [isgen |-> FALSE, body |-> <<Returns("Flask")>>],
      [isgen |-> FALSE, body |-> <<Returns("Other")>>],
      [isgen |-> TRUE,  body |-> << >>],
      [isgen |-> TRUE,  body |-> <<Raise("CreateAppError")>>],
      [isgen |-> TRUE,  body |-> <<Yield("Flask")>>],
      [isgen |-> TRUE,  body |-> <<Yield("Other")>>],
      [isgen |-> TRUE,  body |-> <<Yield("Flask"), Raise("CleanupError")>>],
      [isgen |-> TRUE,  body |-> <<Yield("Flask"), Yield("Flask")>>] }

NoCreateApp == [isgen |-> FALSE, body |-> << >>]

\* The case classes: which base class, and the class attributes the base reads.
CaseClasses ==
    { [kind |-> "AppTestCase", create_app |-> f, app |-> NoneVal,
       test_client_use_cookies |-> TRUE, test_client_kwargs |-> "valid"] :
          f \in CreateAppFunctions }
    \cup
    { [kind |-> "ClientTestCase", create_app |-> NoCreateApp, app |-> a,
       test_client_use_cookies |-> c, test_client_kwargs |-> k] :
          a \in {NoneVal, Obj("Flask", 0)}, c \in BOOLEAN, k \in {"valid", "invalid"} }
    \cup
    { [kind |-> "AppClientTestCase", create_app |-> f, app |-> NoneVal,
       test_client_use_cookies |-> c, test_client_kwargs |-> k] :
          f \in CreateAppFunctions, c \in BOOLEAN, k \in {"valid", "invalid"} }

\* What the body of a user's setUp / test method / tearDown may do.
Outcomes == {"ok", "AssertionError", "Exception"}

Methods == {"setUp", "test", "tearDown"}

VARIABLES
    cls,                \* the case class of the instance
    pc,                 \* where the instance's current invocation stands
    internal_method,    \* "run" (super().run with the result) or "debug"
    bindings,           \* instance attributes setUp/test/tearDown: the arguments pre-applied to the author's function
    orig,               \* orig_setup, orig_test, orig_teardown of the invocation
    app,                \* the application provisioned by the invocation
    client,             \* the client opened by the invocation
    create_app_result,  \* res of _instantiate_app
    openClients,        \* clients whose context is entered and not yet exited
    exc,                \* the exception in flight
    raised,             \* what the last constructor / run() / debug() call raised
    result,             \* the TestResult: the outcomes recorded
    log,                \* the events of the current invocation, in order
    runs,               \* invocations started
    created,            \* objects created so far (identities)
    classDict,          \* setUp/test/tearDown as the case class defines them
    otherDict           \* the instance __dict__ of another instance of the class

\* The state of a suite of tests and of the live server (src/flask_unittest/suite.py).
VARIABLES
    suite,              \* the suite: its class, constructor arguments and every test given to it
    tests,              \* the suite's _tests by now: a test that was run is replaced by None
    self,               \* the LiveTestSuite's fields _app, _timeout, _host, _port
    net,                \* what the network does with a connection attempt to the port
    spc,                \* where the suite's run() stands
    threads,            \* the serving threads started so far
    listener,           \* the thread whose server has the port bound, with its host
    probe,              \* how the readiness probe of the current run ended
    fields,             \* server_url and app of every leaf test instance
    queue,              \* the leaf tests the current run has still to execute
    executed,           \* the leaf tests the current run executed, with what they read
    sresult,            \* the result sink handed to the suite's run()
    sraised,            \* what building the suite or its run() raised
    sdebug,             \* the debug argument of the current run
    sruns               \* run() calls started on the suite

caseVars == <<cls, pc, internal_method, bindings, orig, app, client, create_app_result,
              openClients, exc, raised, result, log, runs, created, classDict, otherDict>>

suiteVars == <<suite, tests, self, net, spc, threads, listener, probe, fields, queue, executed,
               sresult, sraised, sdebug, sruns>>

vars == <<caseVars, suiteVars>>

\* No suite takes part: one case instance is driven directly.
NoSuite ==
    /\ suite = [t |-> "None"]
    /\ tests = << >>
    /\ self = [t |-> "None"]
    /\ net = "normal"
    /\ spc = "absent"
    /\ threads = << >>
    /\ listener = [t |-> "None"]
    /\ probe = "none"
    /\ fields = << >>
    /\ queue = << >>
    /\ executed = << >>
    /\ sresult = << >>
    /\ sraised = "none"
    /\ sdebug = FALSE
    /\ sruns = 0

Event(ev, args, out) == [ev |-> ev, args |-> args, out |-> out]

Originals == [m \in Methods |-> << >>]

Init ==
    /\ cls \in CaseClasses
    /\ pc = "new"
    /\ internal_method = "none"
    /\ bindings = Originals
    /\ orig = Originals
    /\ app = NoneVal
    /\ client = NoneVal
    /\ create_app_result = NoneVal
    /\ openClients = {}
    /\ exc = "none"
    /\ raised = "none"
    /\ result = << >>
    /\ log = << >>
    /\ runs = 0
    /\ created = 0
    /\ classDict = Originals
    /\ otherDict \in {<< >>, Originals}
    /\ NoSuite


(***************************************************************************)
(* Helpers                                                                 *)
(***************************************************************************)
\* next(g) on a generator running `body`: the generator afterwards, and
\* whether it yielded a value, raised, or terminated (StopIteration).
GenNext(g, body) ==
    IF g.pos > Len(body)
    THEN [g |-> g, out |-> "stop", v |-> "none"]
    ELSE IF body[g.pos].op = "yield"
         THEN [g |-> [g EXCEPT !.pos = @ + 1], out |-> "yield", v |-> body[g.pos].v]
         ELSE [g |-> [g EXCEPT !.pos = Len(body) + 1], out |-> "raise", v |-> body[g.pos].v]

\* isinstance(x, Flask)
IsFlask(x) == x.t = "Flask"

\* bool(x), as `not self.app` takes it: None is false, an object is true.
Truthy(x) == x # NoneVal

\* hasattr(self, '_teardown_create_app_result'): AppTestCase and its subclass.
HasTeardownCreateAppResult == cls.kind \in {"AppTestCase", "AppClientTestCase"}

\* The case classes that open a client in a `with` block.
HasClient == cls.kind \in {"ClientTestCase", "AppClientTestCase"}


\* *test_args each case class hands to _handle_try_finally_around_internal_call.
TestArgs ==
    CASE cls.kind = "AppTestCase"       -> <<app>>
      [] cls.kind = "ClientTestCase"    -> <<client>>
      [] cls.kind = "AppClientTestCase" -> <<app, client>>

\* Positional parameters (after self) of the author's setUp/test/tearDown.
Arity == IF cls.kind = "AppClientTestCase" THEN 2 ELSE 1

\* Calling a binding with no arguments: the author's function is entered when
\* the pre-applied arguments fit its signature, else the call is a TypeError.
CallOutcomes(m) ==
    IF Len(bindings[m]) = Arity THEN Outcomes ELSE {"TypeError:arguments"}

\* Where control goes when internal_method() is left: the finally block.
Finally == IF HasTeardownCreateAppResult THEN "teardown_app" ELSE "restore"

\* Where control goes when the finally block is left.
AfterFinally == IF HasClient THEN "client_exit" ELSE "return"

(***************************************************************************)
(* Construction                                                            *)
(***************************************************************************)
\* Mutant of Construct: __init__ does not verify self.app.
ConstructUnchecked ==
    /\ pc = "new"
    /\ pc' = "idle"
    /\ UNCHANGED <<classDict, otherDict>>
    /\ UNCHANGED <<cls, internal_method, bindings, orig, app, client, create_app_result,
                   openClients, exc, raised, result, log, runs, created>>

\* TestCase(methodName); ClientTestCase.__init__ verifies self.app first.
Construct ==
    /\ pc = "new"
    /\ IF cls.kind = "ClientTestCase" /\ ~Truthy(cls.app)
       THEN pc' = "ctor_failed" /\ raised' = "NotImplementedError"
       ELSE pc' = "idle" /\ UNCHANGED raised
    /\ UNCHANGED <<classDict, otherDict>>
    /\ UNCHANGED <<cls, internal_method, bindings, orig, app, client, create_app_result,
                   openClients, exc, result, log, runs, created>>

(***************************************************************************)
(* run(result) / debug(): _wrap_internal_method_with_custom_setup           *)
(***************************************************************************)
Wrap(method) ==
    /\ pc = "idle"
    /\ runs < MaxRuns
    /\ runs' = runs + 1
    /\ internal_method' = method
    /\ orig' = bindings
    /\ pc' = IF cls.kind = "ClientTestCase" THEN "open_client" ELSE "instantiate_app"
    /\ log' = << >>
    /\ exc' = "none"
    /\ raised' = "none"
    /\ app' = NoneVal
    /\ client' = NoneVal
    /\ create_app_result' = NoneVal
    /\ UNCHANGED <<classDict, otherDict>>
    /\ UNCHANGED <<cls, bindings, openClients, result, created>>

Run == Wrap("run")

Debug == Wrap("debug")

(***************************************************************************)
(* Provisioning: _handle_resource_instantiation_and_internal_call          *)
(***************************************************************************)
\* Where provisioning goes on after the application is there.
AfterInstantiate == IF cls.kind = "AppClientTestCase" THEN "open_client" ELSE "override"

\* Provisioning failed: the exception leaves run()/debug().
Propagate(e) ==
    /\ exc' = e
    /\ pc' = "return"


\* Mutant of InstantiateApp: create_app is called a second time for the value
\* handed to the test (return res, self.create_app()).
InstantiateAppTwice ==
    /\ pc = "instantiate_app"
    /\ LET f == cls.create_app
           call == Event("create_app", << >>, "called")
       IN IF ~f.isgen /\ f.body[1].op = "return" /\ f.body[1].v = "Flask"
          THEN LET v1 == Obj("Flask", created + 1)
                   v2 == Obj("Flask", created + 2)
               IN /\ create_app_result' = v1
                  /\ app' = v2
                  /\ created' = created + 2
                  /\ log' = log \o <<call, Event("returned", <<v1>>, "return"),
                                     call, Event("returned", <<v2>>, "return")>>
                  /\ pc' = AfterInstantiate
                  /\ UNCHANGED exc
          ELSE /\ log' = Append(log, call)
               /\ Propagate("CreateAppError")
               /\ UNCHANGED <<create_app_result, app, created>>
    /\ UNCHANGED <<classDict, otherDict>>
    /\ UNCHANGED <<cls, internal_method, bindings, orig, client, openClients, raised,
                   result, runs>>

\* Mutant of InstantiateApp: the isinstance check of the plain branch is
\* missing, whatever create_app returns is handed on as the application.
InstantiateAppUnchecked ==
    /\ pc = "instantiate_app"
    /\ LET f == cls.create_app
           call == Event("create_app", << >>, "called")
       IN IF ~f.isgen /\ f.body[1].op = "return"
          THEN LET v == Obj(f.body[1].v, created + 1)
               IN /\ create_app_result' = v
                  /\ app' = v
                  /\ created' = created + 1
                  /\ log' = log \o <<call, Event("returned", <<v>>, "return")>>
                  /\ pc' = AfterInstantiate
                  /\ UNCHANGED exc
          ELSE /\ log' = Append(log, call)
               /\ Propagate("CreateAppError")
               /\ UNCHANGED <<create_app_result, app, created>>
    /\ UNCHANGED <<classDict, otherDict>>
    /\ UNCHANGED <<cls, internal_method, bindings, orig, client, openClients, raised,
                   result, runs>>

\* res, app = self._instantiate_app()
InstantiateApp ==
    /\ pc = "instantiate_app"
    /\ LET f == cls.create_app
           call == Event("create_app", << >>, "called")
       IN IF f.isgen
          THEN \* res = self.create_app(); return res, next(res)
               LET r == GenNext(Generator, f.body)
                   v == Obj(r.v, created + 1)
               IN CASE r.out = "yield" ->
                         /\ create_app_result' = r.g
                         /\ app' = v
                         /\ created' = created + 1
                         /\ log' = log \o <<call, Event("gen_start", <<v>>, "yield")>>
                         /\ pc' = AfterInstantiate
                         /\ UNCHANGED exc
                    [] r.out = "stop" ->
                         /\ log' = log \o <<call, Event("gen_start", << >>, "stop")>>
                         /\ Propagate("StopIteration")
                         /\ UNCHANGED <<create_app_result, app, created>>
                    [] r.out = "raise" ->
                         /\ log' = log \o <<call, Event("gen_start", << >>, "raise")>>
                         /\ Propagate(r.v)
                         /\ UNCHANGED <<create_app_result, app, created>>
          ELSE \* res = self.create_app(); isinstance(res, Flask) or TypeError
               LET s == f.body[1]
                   v == Obj(s.v, created + 1)
               IN IF s.op = "raise"
                  THEN /\ log' = Append(log, call)
                       /\ Propagate(s.v)
                       /\ UNCHANGED <<create_app_result, app, created>>
                  ELSE IF IsFlask(v)
                       THEN /\ create_app_result' = v
                            /\ app' = v
                            /\ created' = created + 1
                            /\ log' = log \o <<call, Event("returned", <<v>>, "return")>>
                            /\ pc' = AfterInstantiate
                            /\ UNCHANGED exc
                       ELSE /\ created' = created + 1
                            /\ log' = log \o <<call, Event("returned", <<v>>, "return")>>
                            /\ Propagate("TypeError:not_flask")
                            /\ UNCHANGED <<create_app_result, app>>
    /\ UNCHANGED <<classDict, otherDict>>
    /\ UNCHANGED <<cls, internal_method, bindings, orig, client, openClients, raised,
                   result, runs>>

\* Mutant of OpenClient: test_client() is called without the case's cookie
\* flag and options.
OpenClientWithDefaults ==
    /\ pc = "open_client"
    /\ LET target == IF cls.kind = "ClientTestCase" THEN cls.app ELSE app
           c == FlaskClient(created + 1, target, TRUE)
       IN IF ~IsFlask(target)
          THEN /\ Propagate("AttributeError")
               /\ UNCHANGED <<client, openClients, created, log>>
          ELSE /\ client' = c
               /\ openClients' = openClients \cup {c.id}
               /\ created' = created + 1
               /\ log' = Append(log, Event("client_open", <<c>>, "ok"))
               /\ pc' = "override"
               /\ UNCHANGED exc
    /\ UNCHANGED <<classDict, otherDict>>
    /\ UNCHANGED <<cls, internal_method, bindings, orig, app, create_app_result, raised,
                   result, runs>>

\* Mutant of OpenClient: ClientTestCase makes an application of its own for
\* every test and opens the client on it.
OpenClientOnOwnApp ==
    /\ pc = "open_client"
    /\ LET target == IF cls.kind = "ClientTestCase" THEN Obj("Flask", created + 1) ELSE app
           c == FlaskClient(created + 2, target, cls.test_client_use_cookies)
       IN IF ~IsFlask(target) \/ cls.test_client_kwargs = "invalid"
          THEN /\ Propagate("TypeError:test_client")
               /\ UNCHANGED <<client, openClients, created, log>>
          ELSE /\ client' = c
               /\ openClients' = openClients \cup {c.id}
               /\ created' = created + 2
               /\ log' = Append(log, Event("client_open", <<c>>, "ok"))
               /\ pc' = "override"
               /\ UNCHANGED exc
    /\ UNCHANGED <<classDict, otherDict>>
    /\ UNCHANGED <<cls, internal_method, bindings, orig, app, create_app_result, raised,
                   result, runs>>

\* with <app>.test_client(use_cookies, **test_client_kwargs) as client:
\* ClientTestCase opens it on the class's app, AppClientTestCase on the
\* application just provisioned.
OpenClient ==
    /\ pc = "open_client"
    /\ LET target == IF cls.kind = "ClientTestCase" THEN cls.app ELSE app
           c == FlaskClient(created + 1, target, cls.test_client_use_cookies)
       IN IF ~IsFlask(target)
          THEN \* the yielded object has no test_client
               /\ Propagate("AttributeError")
               /\ UNCHANGED <<client, openClients, created, log>>
          ELSE IF cls.test_client_kwargs = "invalid"
               THEN \* the client class rejects the keyword arguments
                    /\ Propagate("TypeError:test_client")
                    /\ UNCHANGED <<client, openClients, created, log>>
               ELSE /\ client' = c
                    /\ openClients' = openClients \cup {c.id}
                    /\ created' = created + 1
                    /\ log' = Append(log, Event("client_open", <<c>>, "ok"))
                    /\ pc' = "override"
                    /\ UNCHANGED exc
    /\ UNCHANGED <<classDict, otherDict>>
    /\ UNCHANGED <<cls, internal_method, bindings, orig, app, create_app_result, raised,
                   result, runs>>

(***************************************************************************)
(* _handle_try_finally_around_internal_call: the try block                  *)
(***************************************************************************)
\* Mutant of Override: the bindings are replaced but internal_method is
\* never called.
OverrideWithoutCall ==
    /\ pc = "override"
    /\ bindings' = [m \in Methods |-> orig[m] \o TestArgs]
    /\ log' = Append(log, Event("override", TestArgs, "ok"))
    /\ pc' = Finally
    /\ UNCHANGED <<classDict, otherDict>>
    /\ UNCHANGED <<cls, internal_method, orig, app, client, create_app_result, openClients,
                   exc, raised, result, runs, created>>

\* Mutant of Override: the partials are set on the class, where every
\* instance without an attribute of its own finds them.
OverrideOnClass ==
    /\ pc = "override"
    /\ classDict' = [m \in Methods |-> orig[m] \o TestArgs]
    /\ bindings' = [m \in Methods |-> orig[m] \o TestArgs]
    /\ log' = Append(log, Event("override", TestArgs, "ok"))
    /\ pc' = "setUp"
    /\ UNCHANGED otherDict
    /\ UNCHANGED <<cls, internal_method, orig, app, client, create_app_result, openClients,
                   exc, raised, result, runs, created>>

\* setattr(self, name, functools.partial(orig, *test_args)) for the three methods.
\* A partial of a partial pre-applies the arguments of both.
Override ==
    /\ pc = "override"
    /\ bindings' = [m \in Methods |-> orig[m] \o TestArgs]
    /\ log' = Append(log, Event("override", TestArgs, "ok"))
    /\ pc' = "setUp"
    /\ UNCHANGED <<classDict, otherDict>>
    /\ UNCHANGED <<cls, internal_method, orig, app, client, create_app_result, openClients,
                   exc, raised, result, runs, created>>

\* Mutant of HostCall: run(result) does not hand the result on, what a call
\* raises leaves internal_method() as it does under debug().
HostCallUnrecorded(m, passed, recorded) ==
    \E o \in CallOutcomes(m) :
        /\ log' = Append(log, Event(IF o \in Outcomes THEN m ELSE "rejected", bindings[m], o))
        /\ IF o = "ok"
           THEN /\ pc' = passed
                /\ UNCHANGED <<exc, result>>
           ELSE /\ exc' = o
                /\ pc' = Finally
                /\ UNCHANGED result
        /\ UNCHANGED <<classDict, otherDict>>
        /\ UNCHANGED <<cls, internal_method, bindings, orig, app, client, create_app_result,
                       openClients, raised, runs, created>>

\* internal_method() calls self.<m>() with no arguments.  Under run(result) the
\* host framework records what the call raises and goes on at `recorded`;
\* under debug() the exception leaves internal_method().
HostCall(m, passed, recorded) ==
    \E o \in CallOutcomes(m) :
        /\ log' = Append(log, Event(IF o \in Outcomes THEN m ELSE "rejected", bindings[m], o))
        /\ IF o = "ok"
           THEN /\ pc' = passed
                /\ UNCHANGED <<exc, result>>
           ELSE IF internal_method = "run"
                THEN /\ result' = Append(result,
                            [run |-> runs, part |-> m, exc |-> o,
                             kind |-> IF o = "AssertionError" THEN "failure" ELSE "error"])
                     /\ pc' = recorded
                     /\ UNCHANGED exc
                ELSE /\ exc' = o
                     /\ pc' = Finally
                     /\ UNCHANGED result
        /\ UNCHANGED <<classDict, otherDict>>
        /\ UNCHANGED <<cls, internal_method, bindings, orig, app, client, create_app_result,
                       openClients, raised, runs, created>>

\* The host framework's setUp step: a failing setUp skips the test and tearDown.
CallSetUp == pc = "setUp" /\ HostCall("setUp", "testMethod", Finally)

\* The host framework's test-method step: tearDown follows whatever it did.
CallTestMethod == pc = "testMethod" /\ HostCall("test", "tearDown", "tearDown")

\* The host framework's tearDown step, after which internal_method() returns.
CallTearDown == pc = "tearDown" /\ HostCall("tearDown", Finally, Finally)

(***************************************************************************)
(* _handle_try_finally_around_internal_call: the finally block              *)
(***************************************************************************)

\* Mutant of TeardownCreateAppResult: a second yield is taken like termination
\* (the else: raise TypeError branch is missing).
TeardownIgnoresSecondYield ==
    /\ pc = "teardown_app"
    /\ IF IsFlask(create_app_result)
       THEN /\ log' = Append(log, Event("teardown", <<create_app_result>>, "nothing"))
            /\ pc' = "restore"
            /\ UNCHANGED <<create_app_result, exc, created>>
       ELSE LET r == GenNext(create_app_result, cls.create_app.body)
            IN /\ create_app_result' = r.g
               /\ log' = Append(log, Event("gen_resume", << >>, r.out))
               /\ IF r.out = "raise"
                  THEN exc' = r.v /\ pc' = AfterFinally
                  ELSE pc' = "restore" /\ UNCHANGED exc
               /\ UNCHANGED created
    /\ UNCHANGED <<classDict, otherDict>>
    /\ UNCHANGED <<cls, internal_method, bindings, orig, app, client, openClients, raised,
                   result, runs>>

\* self._teardown_create_app_result(create_app_result): an exception it raises
\* leaves the finally block at once, in place of the one in flight.
TeardownCreateAppResult ==
    /\ pc = "teardown_app"
    /\ IF IsFlask(create_app_result)
       THEN \* nothing to clean up
            /\ log' = Append(log, Event("teardown", <<create_app_result>>, "nothing"))
            /\ pc' = "restore"
            /\ UNCHANGED <<create_app_result, exc, created>>
       ELSE LET r == GenNext(create_app_result, cls.create_app.body)
            IN /\ create_app_result' = r.g
               /\ CASE r.out = "stop" ->
                         /\ log' = Append(log, Event("gen_resume", << >>, "stop"))
                         /\ pc' = "restore"
                         /\ UNCHANGED <<exc, created>>
                    [] r.out = "yield" ->
                         /\ log' = Append(log, Event("gen_resume", <<Obj(r.v, created + 1)>>, "yield"))
                         /\ created' = created + 1
                         /\ exc' = "TypeError:yield_multiple"
                         /\ pc' = AfterFinally
                    [] r.out = "raise" ->
                         /\ log' = Append(log, Event("gen_resume", << >>, "raise"))
                         /\ exc' = r.v
                         /\ pc' = AfterFinally
                         /\ UNCHANGED created
    /\ UNCHANGED <<classDict, otherDict>>
    /\ UNCHANGED <<cls, internal_method, bindings, orig, app, client, openClients, raised,
                   result, runs>>

\* Restore the original methods.
Restore ==
    /\ pc = "restore"
    /\ bindings' = orig
    /\ log' = Append(log, Event("restore", << >>, "ok"))
    /\ pc' = AfterFinally
    /\ UNCHANGED <<classDict, otherDict>>
    /\ UNCHANGED <<cls, internal_method, orig, app, client, create_app_result, openClients,
                   exc, raised, result, runs, created>>


\* Mutant of ClientExit: the client is closed by a plain call after the inner
\* call returned, which an exception in flight skips.
ClientExitUnlessRaising ==
    /\ pc = "client_exit"
    /\ IF exc = "none"
       THEN /\ openClients' = openClients \ {client.id}
            /\ log' = Append(log, Event("client_close", <<client>>, "ok"))
       ELSE UNCHANGED <<openClients, log>>
    /\ pc' = "return"
    /\ UNCHANGED <<classDict, otherDict>>
    /\ UNCHANGED <<cls, internal_method, bindings, orig, app, client, create_app_result,
                   exc, raised, result, runs, created>>

\* Leaving the `with` block: the client's __exit__, which swallows nothing.
ClientExit ==
    /\ pc = "client_exit"
    /\ openClients' = openClients \ {client.id}
    /\ log' = Append(log, Event("client_close", <<client>>, "ok"))
    /\ pc' = "return"
    /\ UNCHANGED <<classDict, otherDict>>
    /\ UNCHANGED <<cls, internal_method, bindings, orig, app, client, create_app_result,
                   exc, raised, result, runs, created>>

\* Mutant of Return: run(result) catches what provisioning raised and records
\* it in the result as an error of the test.
ReturnRecorded ==
    /\ pc = "return"
    /\ IF internal_method = "run" /\ exc # "none"
       THEN /\ result' = Append(result, [run |-> runs, part |-> "test", exc |-> exc,
                                         kind |-> "error"])
            /\ raised' = "none"
       ELSE /\ raised' = exc
            /\ UNCHANGED result
    /\ exc' = "none"
    /\ pc' = "idle"
    /\ UNCHANGED <<classDict, otherDict>>
    /\ UNCHANGED <<cls, internal_method, bindings, orig, app, client, create_app_result,
                   openClients, log, runs, created>>

\* run()/debug() returns to, or raises into, its caller.
Return ==
    /\ pc = "return"
    /\ raised' = exc
    /\ exc' = "none"
    /\ pc' = "idle"
    /\ UNCHANGED <<classDict, otherDict>>
    /\ UNCHANGED <<cls, internal_method, bindings, orig, app, client, create_app_result,
                   openClients, result, log, runs, created>>

Next ==
    \/ Construct /\ UNCHANGED suiteVars
    \/ Run /\ UNCHANGED suiteVars
    \/ Debug /\ UNCHANGED suiteVars
    \/ InstantiateApp /\ UNCHANGED suiteVars
    \/ OpenClient /\ UNCHANGED suiteVars
    \/ Override /\ UNCHANGED suiteVars
    \/ CallSetUp /\ UNCHANGED suiteVars
    \/ CallTestMethod /\ UNCHANGED suiteVars
    \/ CallTearDown /\ UNCHANGED suiteVars
    \/ TeardownCreateAppResult /\ UNCHANGED suiteVars
    \/ Restore /\ UNCHANGED suiteVars
    \/ ClientExit /\ UNCHANGED suiteVars
    \/ Return /\ UNCHANGED suiteVars

Spec == Init /\ [][Next]_vars

(***************************************************************************)
(* Reading the log of the current invocation                               *)
(***************************************************************************)
Positions(evs) == {i \in 1..Len(log) : log[i].ev \in evs}

Count(ev) == Cardinality(Positions({ev}))

\* The calls that entered the author's setUp / test method / tearDown.
Entered == Positions(Methods)

\* Every attempt of the host framework to call one of the three bindings.
Attempted == Positions(Methods \cup {"rejected"})

\* The invocation went into _handle_try_finally_around_internal_call.
InTryFinally == Count("override") = 1

\* run()/debug() is over: about to return or raise, or back with the caller.
Leaving == pc \in {"return", "idle"} /\ runs > 0

\* The value create_app returned or first yielded, as the call produced it.
Produced == log[CHOOSE i \in Positions({"returned", "gen_start"}) : TRUE].args[1]

\* The client the invocation opened, as test_client produced it.
Opened == log[CHOOSE i \in Positions({"client_open"}) : TRUE].args[1]

\* Disposal of the application raised.
DisposalRaised == \E i \in Positions({"gen_resume"}) : log[i].out \in {"yield", "raise"}

\* What the body raised out of internal_method(): under debug() the first
\* failing call, under run(result) nothing.
BodyException ==
    IF internal_method = "debug" /\ \E i \in Attempted : log[i].out # "ok"
    THEN log[CHOOSE i \in Attempted : log[i].out # "ok"].out
    ELSE "none"

\* The generator yielded again when it was resumed at disposal.
SecondYield == \E i \in Positions({"gen_resume"}) : log[i].out = "yield"

\* create_app is a generator function whose second statement is another yield.
YieldsTwice ==
    /\ cls.create_app.isgen
    /\ Len(cls.create_app.body) >= 2
    /\ cls.create_app.body[1].op = "yield"
    /\ cls.create_app.body[2].op = "yield"

\* create_app is a generator function that yields once and then terminates.
YieldsOnce ==
    /\ cls.create_app.isgen
    /\ Len(cls.create_app.body) = 1
    /\ cls.create_app.body[1].op = "yield"

\* How often the generator was advanced in this invocation.
Advances == Count("gen_start") + Count("gen_resume")

\* The argument list the case class fixes, of the objects as they were produced.
ExpectedArgs ==
    CASE cls.kind = "AppTestCase"       -> <<Produced>>
      [] cls.kind = "ClientTestCase"    -> <<Opened>>
      [] cls.kind = "AppClientTestCase" -> <<Produced, Opened>>

(***************************************************************************)
(* C1: after any sequence of run()/debug() invocations, whatever the       *)
(* outcome, the instance's setUp, test method and tearDown bindings equal  *)
(* the ones captured before the invocation; no partial remains.            *)
(* Violated: when _teardown_create_app_result raises (see C2) the          *)
(* assignments that restore the bindings are skipped.                      *)
(***************************************************************************)
C1_BindingsRestoredAfterInvocation ==
    (pc = "idle" /\ runs > 0) => (bindings = orig /\ bindings = Originals)

(***************************************************************************)
(* C2: when disposal of the provisioned application raises, the original   *)
(* bindings are restored before the error reaches the caller of            *)
(* run()/debug().  Violated: the raise leaves the finally block before     *)
(* the restoring assignments.                                              *)
(***************************************************************************)
C2_RestoredWhenDisposalRaises ==
    (Leaving /\ DisposalRaised) => bindings = orig

(***************************************************************************)
(* C3: in AppClientTestCase the client is released before the application  *)
(* is disposed (its generator resumed), on every exit path.  Violated: the *)
(* generator is resumed in the finally block inside the `with` block, the  *)
(* client is released when the `with` block is left.                       *)
(***************************************************************************)
C3_ClientReleasedBeforeAppDisposed ==
    cls.kind = "AppClientTestCase" =>
        \A i \in Positions({"gen_resume"}) :
            \E j \in Positions({"client_close"}) : j < i

(***************************************************************************)
(* C4: a generator create_app that yields a second value when resumed at   *)
(* disposal makes run()/debug() raise a distinct error to its caller; the  *)
(* violation is neither ignored nor recorded in the result as a test       *)
(* failure.                                                                *)
(***************************************************************************)
C4_SecondYieldRaisesToCaller ==
    /\ (SecondYield /\ pc = "client_exit") => exc = "TypeError:yield_multiple"
    /\ (YieldsTwice /\ InTryFinally /\ pc = "return") =>
          (SecondYield /\ exc = "TypeError:yield_multiple")
    /\ (YieldsTwice /\ InTryFinally /\ pc = "idle") =>
          (SecondYield /\ raised = "TypeError:yield_multiple")
    /\ \A k \in 1..Len(result) :
          /\ result[k].exc # "TypeError:yield_multiple"
          /\ result[k].part \in Methods

C4_Witness ==
    /\ pc = "idle"
    /\ SecondYield
    /\ raised = "TypeError:yield_multiple"
    /\ internal_method = "run"
    /\ \E k \in 1..Len(result) : result[k].run = runs /\ result[k].kind = "failure"

(***************************************************************************)
(* C5: for a generator create_app that yields exactly once, each invocation*)
(* advances the generator exactly twice in total: once at provisioning,    *)
(* once at disposal, where its termination is success (disposal raises     *)
(* nothing), and never a third time.                                       *)
(* Violated through C23: in AppClientTestCase, when test_client(...) raises*)
(* after the application was provisioned, run()/debug() is left with the   *)
(* generator advanced once.                                                *)
(***************************************************************************)
C5_GeneratorAdvancedExactlyTwice ==
    (HasTeardownCreateAppResult /\ YieldsOnce) =>
        /\ Advances <= 2
        /\ Count("gen_start") <= 1
        /\ \A i \in Positions({"gen_resume"}) : log[i].out = "stop"
        /\ (Count("gen_resume") = 1 /\ pc \in {"restore", "client_exit", "return", "idle"}) =>
              IF pc = "idle" THEN raised = BodyException ELSE exc = BodyException
        /\ Leaving => Advances = 2

(***************************************************************************)
(* C6: in AppTestCase and AppClientTestCase create_app is invoked exactly  *)
(* once per invocation, the application injected into setUp, the test and  *)
(* tearDown is exactly the value that call returned (plain form) or        *)
(* yielded (generator form), and for the plain form disposal performs no   *)
(* action on it.                                                           *)
(***************************************************************************)
C6_CreateAppOnceAndInjected ==
    HasTeardownCreateAppResult =>
        /\ Count("create_app") <= 1
        /\ (runs > 0 /\ pc # "instantiate_app") => Count("create_app") = 1
        /\ \A i \in Entered : log[i].args[1] = Produced
        /\ ~cls.create_app.isgen =>
              /\ Advances = 0
              /\ \A i \in Positions({"teardown"}) :
                    log[i].out = "nothing" /\ log[i].args = <<Produced>>
              /\ create_app_result # NoneVal => create_app_result = Produced

C6_Witness ==
    /\ pc = "idle"
    /\ cls.kind = "AppTestCase"
    /\ ~cls.create_app.isgen
    /\ Count("create_app") = 1
    /\ Count("teardown") = 1
    /\ \E i \in Positions({"test"}) : log[i].args = <<Produced>> /\ IsFlask(Produced)

(***************************************************************************)
(* C7: within one invocation setUp, the test method and tearDown are each  *)
(* called with the same resource objects, and the argument list is fixed   *)
(* by the case class: (app) for AppTestCase, (client) for ClientTestCase,  *)
(* (app, client) in that order for AppClientTestCase.                      *)
(* Violated through C2: after a disposal that raised, the bindings are     *)
(* still the partials of that invocation; the next invocation of the       *)
(* instance pre-applies its resources on top of them and setUp is called   *)
(* with the old application followed by the new one.                       *)
(***************************************************************************)
C7_SameResourcesInClassOrder ==
    /\ \A i \in Attempted : log[i].args = ExpectedArgs
    /\ \A i, j \in Attempted : log[i].args = log[j].args

(***************************************************************************)
(* C8: for a generator create_app the code after the yield runs only after *)
(* setUp, the test method and tearDown of that invocation have finished,   *)
(* and before run()/debug() returns: pre-yield setup, setUp, test,         *)
(* tearDown, post-yield cleanup.                                           *)
(* Violated through C23: in AppClientTestCase, when test_client(...) raises*)
(* after the generator yielded, run()/debug() is left and the code after   *)
(* the yield has not run.                                                  *)
(***************************************************************************)
C8_CleanupAfterTestBeforeReturn ==
    cls.create_app.isgen =>
        /\ \A i \in Positions({"gen_start"}) : \A j \in Attempted : i < j
        /\ \A i \in Positions({"gen_resume"}) : \A j \in Attempted : j < i
        /\ \A i \in Positions({"gen_resume"}) : pc \notin {"setUp", "testMethod", "tearDown"}
        /\ \A i \in Positions({"gen_start"}) :
              (Leaving /\ log[i].out = "yield") => \E j \in Positions({"gen_resume"}) : i < j

(***************************************************************************)
(* C9: a client never outlives its invocation.  In ClientTestCase and      *)
(* AppClientTestCase an invocation that runs the test has opened exactly   *)
(* one client and no invocation opens more than one, at most one client is *)
(* open at any time, and on every exit path (a failing body, a disposal    *)
(* error) the client is released by the time run()/debug() returns or      *)
(* raises: none is open while the instance is idle.                        *)
(***************************************************************************)
C9_ClientScopedToInvocation ==
    /\ Cardinality(openClients) <= 1
    /\ Count("client_open") <= 1
    /\ (HasClient /\ InTryFinally) => Count("client_open") = 1
    /\ (HasClient /\ pc \in {"setUp", "testMethod", "tearDown", "teardown_app", "restore"}) =>
          openClients = {client.id}
    /\ pc \in {"new", "ctor_failed", "idle", "return"} => openClients = {}
    /\ (Leaving /\ Count("client_open") = 1) => Count("client_close") = 1

C9_Witness ==
    /\ pc = "idle"
    /\ cls.kind = "AppClientTestCase"
    /\ DisposalRaised
    /\ Count("client_open") = 1
    /\ Count("client_close") = 1
    /\ openClients = {}
    /\ runs = 2

(***************************************************************************)
(* C10: constructing a ClientTestCase whose class has no application bound *)
(* to `app` fails at construction, before any test of that case can run.   *)
(***************************************************************************)
C10_ClientCaseWithoutAppFailsAtConstruction ==
    (cls.kind = "ClientTestCase" /\ ~IsFlask(cls.app)) =>
        /\ pc \in {"new", "ctor_failed"}
        /\ pc = "ctor_failed" => raised = "NotImplementedError"
        /\ runs = 0
        /\ log = << >>
        /\ result = << >>

C10_Witness ==
    /\ cls.kind = "ClientTestCase"
    /\ cls.app = NoneVal
    /\ pc = "ctor_failed"
    /\ raised = "NotImplementedError"

\* The application constructor call of this invocation failed: create_app
\* raised, a plain create_app returned something that is no Flask, or a
\* generator create_app ended or raised before its first yield.
CreateAppFailed ==
    /\ Count("create_app") = 1
    /\ \/ Positions({"returned", "gen_start"}) = {}
       \/ \E i \in Positions({"returned"}) : ~IsFlask(log[i].args[1])
       \/ \E i \in Positions({"gen_start"}) : log[i].out # "yield"

\* create_app handed over a value, and the value is not a Flask application.
ProducedNonApplication ==
    \E i \in Positions({"returned", "gen_start"}) :
        /\ log[i].args # << >>
        /\ ~IsFlask(log[i].args[1])

\* The case class inherits create_app from AppTestCase / AppClientTestCase.
CreateAppNotDefined ==
    /\ HasTeardownCreateAppResult
    /\ cls.create_app = [isgen |-> FALSE, body |-> <<Raise("NotImplementedError")>>]

\* What the invocation raises or has raised to its caller.
Error == IF pc = "idle" THEN raised ELSE exc

(***************************************************************************)
(* C17: when the application constructor call of an invocation fails       *)
(* (create_app raises, a plain create_app returns a wrong type, a          *)
(* generator create_app terminates without yielding), the error leaves     *)
(* run()/debug() before any rebinding and before internal_method is        *)
(* called: setUp, the test method and tearDown are never called, no client *)
(* is opened and the three bindings are the ones the invocation found.     *)
(***************************************************************************)
C17_CreateAppFailureLeavesBindingsAlone ==
    CreateAppFailed =>
        /\ Leaving
        /\ Error # "none"
        /\ Count("override") = 0
        /\ Count("client_open") = 0
        /\ Attempted = {}
        /\ bindings = orig
        /\ \A i \in 1..Len(result) : result[i].run # runs

C17_Witness ==
    /\ CreateAppFailed
    /\ pc = "idle"
    /\ raised \in {"TypeError:not_flask", "StopIteration", "CreateAppError"}
    /\ bindings = Originals

(***************************************************************************)
(* C18: whenever create_app produces a value that is not an application,   *)
(* provisioning is rejected with a type-mismatch error and the test is not *)
(* run, for the plain form (a non-application returned) and for the        *)
(* generator form (a non-application yielded).                             *)
(* Violated: _instantiate_app checks isinstance(res, Flask) only in the    *)
(* plain branch; what a generator yields is handed on unchecked.           *)
(***************************************************************************)
C18_NonApplicationRejected ==
    ProducedNonApplication =>
        /\ Leaving
        /\ Error = "TypeError:not_flask"
        /\ Attempted = {}

(***************************************************************************)
(* C19: an invocation on an AppTestCase / AppClientTestCase whose class    *)
(* does not define create_app raises NotImplementedError to the caller of  *)
(* run()/debug(); nothing is added to the result and setUp, the test       *)
(* method and tearDown are not executed.                                   *)
(***************************************************************************)
C19_MissingCreateAppRaisesUnrecorded ==
    (CreateAppNotDefined /\ Count("create_app") = 1) =>
        /\ Leaving
        /\ Error = "NotImplementedError"
        /\ result = << >>
        /\ Attempted = {}
        /\ Count("override") = 0

C19_Witness ==
    /\ CreateAppNotDefined
    /\ internal_method = "run"
    /\ pc = "idle"
    /\ raised = "NotImplementedError"
    /\ runs = 2

(***************************************************************************)
(* LiveTestSuite (src/flask_unittest/suite.py) and the host framework's    *)
(* TestSuite: a suite is built over a tree of tests and run() is called on *)
(* it.  A LiveTestSuite starts the application's server on a thread,       *)
(* probes the port, injects server_url and app into its tests and          *)
(* delegates to the host's sequential run.  The server thread runs         *)
(* concurrently with the thread that called run().                         *)
(***************************************************************************)
MaxSuiteRuns == 1

Str(s) == [t |-> "str", v |-> s]

Num(n) == [t |-> "int", v |-> n]

\* A key a config dictionary does not hold; an attribute an object does not have.
Absent == [t |-> "absent"]

\* _GLOBAL_DEFAULT_TIMEOUT = object()
GLOBAL_DEFAULT_TIMEOUT == [t |-> "object"]

\* _LOCALHOST
LOCALHOST == "127.0.0.1"

\* The defaults of flask_app.config.get('HOST', ...) and .get('PORT', ...).
DefaultHost == "127.0.0.1"

DefaultPort == 5000

\* A Flask application with its config dictionary.
FlaskApp(config) == [t |-> "Flask", id |-> 0, config |-> config]

Configs ==
    [HOST : {Absent, Str("127.0.0.1"), Str("0.0.0.0"), Str("192.168.0.7")},
     PORT : {Absent, Num(8080)}]

\* The timeout arguments a LiveTestSuite is built with (seconds).
Timeouts == {GLOBAL_DEFAULT_TIMEOUT, NoneVal, Num(0), Num(2)}

\* dict.get(key, default)
ConfigGet(config, key, default) == IF config[key] = Absent THEN default ELSE config[key]

\* x or None
OrNone(x) == IF x = NoneVal \/ x = Num(0) THEN NoneVal ELSE x

\* f'http://127.0.0.1:{port}' and the same with a host put in.
Url(host, port) == Str("http://" \o host \o ":" \o ToString(port.v))

(***************************************************************************)
(* The tests of a suite: leaf test instances and nested suites.            *)
(***************************************************************************)
LiveLeaf(n) ==
    [isSuite |-> FALSE, id |-> n, cls |-> "LiveTestCase", create_app |-> NoCreateApp,
     app |-> NoneVal, tests |-> << >>]

AppLeaf(n, f) ==
    [isSuite |-> FALSE, id |-> n, cls |-> "AppTestCase", create_app |-> f,
     app |-> NoneVal, tests |-> << >>]

ClientLeaf(n, a) ==
    [isSuite |-> FALSE, id |-> n, cls |-> "ClientTestCase", create_app |-> NoCreateApp,
     app |-> a, tests |-> << >>]

\* None, where the host's TestSuite.run has put it in place of a test it ran.
NoneTest ==
    [isSuite |-> FALSE, id |-> 0, cls |-> "NoneType", create_app |-> NoCreateApp,
     app |-> NoneVal, tests |-> << >>]

\* The identity of a test added to the suite after it was built.
AddedId == 9

SubSuite(ts) ==
    [isSuite |-> TRUE, id |-> 0, cls |-> "TestSuite", create_app |-> NoCreateApp,
     app |-> NoneVal, tests |-> ts]

\* A child suite made by LiveTestLoader: its suiteClass is LiveTestSuite with
\* the loader's flask_app and timeout pre-applied, so every suite the loader
\* builds is a LiveTestSuite on the same application.
LiveSubSuite(n, ts) ==
    [isSuite |-> TRUE, id |-> n, cls |-> "LiveTestSuite", create_app |-> NoCreateApp,
     app |-> NoneVal, tests |-> ts]

\* What a LiveTestSuite is given: LiveTestCases, directly, in the child
\* suites makeSuite builds per class, or deeper; and what LiveTestLoader
\* builds, a suite per class inside a suite per module.
LiveTrees ==
    { << >>,
      <<LiveLeaf(1)>>,
      <<LiveLeaf(1), LiveLeaf(2)>>,
      <<SubSuite(<<LiveLeaf(1), LiveLeaf(2)>>), LiveLeaf(3)>>,
      <<LiveLeaf(1), SubSuite(<<SubSuite(<<LiveLeaf(2)>>)>>)>>,
      <<LiveSubSuite(11, <<LiveLeaf(1)>>), LiveLeaf(2)>>,
      <<LiveSubSuite(11, <<LiveSubSuite(12, <<LiveLeaf(1), LiveLeaf(2)>>)>>)>> }

CreateAppNotOverridden == [isgen |-> FALSE, body |-> <<Raise("NotImplementedError")>>]

CreateAppPlain == [isgen |-> FALSE, body |-> <<Returns("Flask")>>]

\* A generator create_app whose cleanup, after the yield, raises.
CreateAppCleanupFails == [isgen |-> TRUE, body |-> <<Yield("Flask"), Raise("CleanupError")>>]

\* What a plain TestSuite is given: tests of the case classes, whose
\* create_app is the inherited one, a plain one, or a generator whose
\* cleanup fails.
CaseTrees ==
    { <<SubSuite(<<AppLeaf(1, CreateAppPlain)>>), SubSuite(<<ClientLeaf(2, Obj("Flask", 0))>>)>>,
      <<AppLeaf(1, CreateAppPlain), AppLeaf(2, CreateAppNotOverridden)>>,
      <<AppLeaf(1, CreateAppNotOverridden), AppLeaf(2, CreateAppPlain)>>,
      <<AppLeaf(1, CreateAppPlain), AppLeaf(2, CreateAppCleanupFails)>>,
      <<ClientLeaf(1, Obj("Flask", 0)), ClientLeaf(2, NoneVal)>>,
      <<LiveLeaf(1), SubSuite(<<LiveLeaf(2)>>)>> }

\* What LiveTestLoader builds from a module: a LiveTestSuite per case class
\* inside the LiveTestSuite of the module.
LoaderTrees ==
    { <<LiveSubSuite(11, <<LiveLeaf(1)>>), LiveSubSuite(12, <<LiveLeaf(2)>>)>> }

\* The suites under test.  `entry` is where the application and the timeout
\* were given: to LiveTestSuite itself, to a LiveTestLoader that builds the
\* suite, or to LiveTestProgram (main_live), which builds that loader.
Suites ==
    { [cls |-> "LiveTestSuite", entry |-> "LiveTestSuite", flask_app |-> FlaskApp(c),
       timeout |-> t, tests |-> ts] :
          c \in Configs, t \in Timeouts, ts \in LiveTrees }
    \cup
    { [cls |-> "LiveTestSuite", entry |-> e, flask_app |-> FlaskApp(c),
       timeout |-> t, tests |-> ts] :
          e \in {"LiveTestLoader", "LiveTestProgram"},
          c \in Configs, t \in Timeouts, ts \in LoaderTrees }
    \cup
    { [cls |-> "TestSuite", entry |-> "TestSuite", flask_app |-> NoneVal, timeout |-> NoneVal,
       tests |-> ts] :
          ts \in CaseTrees }

\* The leaf tests in the order the host's TestSuite.run executes them.
RECURSIVE Flatten(_)
Flatten(ts) ==
    IF ts = << >>
    THEN << >>
    ELSE (IF Head(ts).isSuite THEN Flatten(Head(ts).tests) ELSE <<Head(ts)>>)
         \o Flatten(Tail(ts))

Leaves == {Flatten(suite.tests)[i] : i \in 1..Len(Flatten(suite.tests))}

\* What the host's TestSuite.run calls in turn: the leaf tests, and before
\* the tests of a child LiveTestSuite that child's own run().
RECURSIVE Schedule(_)
Schedule(ts) ==
    IF ts = << >>
    THEN << >>
    ELSE (IF Head(ts).isSuite
          THEN (IF Head(ts).cls = "LiveTestSuite" THEN <<Head(ts)>> ELSE << >>)
               \o Schedule(Head(ts).tests)
          ELSE <<Head(ts)>>)
         \o Schedule(Tail(ts))

\* _isnotsuite(test): iter(test) raises TypeError
IsNotSuite(test) == ~test.isSuite

\* _removeTestAtIndex after the test with id n was run: the test is replaced
\* by None in the suite that holds it, and a child suite whose last test was
\* run has returned and is replaced by None in its parent in turn.
RECURSIVE RemoveTest(_, _)
RemoveTest(ts, n) ==
    [i \in 1..Len(ts) |->
        IF ts[i].isSuite
        THEN LET inner == RemoveTest(ts[i].tests, n)
             IN IF inner # << >> /\ \A k \in 1..Len(inner) : inner[k] = NoneTest
                THEN NoneTest
                ELSE [ts[i] EXCEPT !.tests = inner]
        ELSE IF ts[i].id = n /\ ts[i] # NoneTest THEN NoneTest ELSE ts[i]]

\* What _setup_testcases of a suite with tests ts calls _inject_properties
\* on, in order: the children that are no suites and the members of the
\* children that are suites.
RECURSIVE InjectOrder(_)
InjectOrder(ts) ==
    IF ts = << >>
    THEN << >>
    ELSE (IF IsNotSuite(Head(ts)) THEN <<Head(ts)>> ELSE Head(ts).tests)
         \o InjectOrder(Tail(ts))

\* _inject_properties(None): None takes no attribute, AttributeError.
InjectFails(ts) == \E i \in 1..Len(InjectOrder(ts)) : InjectOrder(ts)[i] = NoneTest

\* The tests _setup_testcases of a suite with tests ts injects into: all of
\* InjectOrder, or those before the None it fails on.  A member that is
\* itself a suite gets the two attributes too, where no test reads them.
InjectedBy(ts) ==
    {InjectOrder(ts)[i].id :
        i \in {j \in 1..Len(InjectOrder(ts)) :
                  /\ IsNotSuite(InjectOrder(ts)[j])
                  /\ \A k \in 1..j : InjectOrder(ts)[k] # NoneTest}}

\* Mutant of ClassAttrs: LiveTestCase only annotates its attributes, without
\* a default value.
ClassAttrsUndeclared(leaf) ==
    CASE leaf.cls = "LiveTestCase"   -> [server_url |-> Absent, app |-> Absent]
      [] leaf.cls = "ClientTestCase" -> [server_url |-> Absent, app |-> leaf.app]
      [] OTHER                       -> [server_url |-> Absent, app |-> Absent]

\* The class attributes a fresh instance reads through: LiveTestCase
\* declares app = None and server_url = None, ClientTestCase declares app,
\* which the author's class binds; AppTestCase declares neither.
ClassAttrs(leaf) ==
    CASE leaf.cls = "LiveTestCase"   -> [server_url |-> NoneVal, app |-> NoneVal]
      [] leaf.cls = "ClientTestCase" -> [server_url |-> Absent, app |-> leaf.app]
      [] OTHER                       -> [server_url |-> Absent, app |-> Absent]

AttributeError == [t |-> "AttributeError"]

\* self.<name> read in a test body: the value, or AttributeError raised.
GetAttr(attrs, name) == IF attrs[name] = Absent THEN AttributeError ELSE attrs[name]

\* What _instantiate_app raises for a create_app function, "none" if it
\* hands over an application.
InstantiateAppError(f) ==
    IF f.isgen
    THEN LET r == GenNext(Generator, f.body)
         IN CASE r.out = "yield" -> "none"
              [] r.out = "stop"  -> "StopIteration"
              [] r.out = "raise" -> r.v
    ELSE IF f.body[1].op = "raise"
         THEN f.body[1].v
         ELSE IF f.body[1].v = "Flask" THEN "none" ELSE "TypeError:not_flask"

IsLive == suite.cls = "LiveTestSuite"

\* LiveTestProgram.__init__: the timeout it hands to LiveTestLoader.
ProgramTimeout(timeout) == IF timeout # GLOBAL_DEFAULT_TIMEOUT THEN timeout ELSE NoneVal

\* LiveTestLoader.__init__: the timeout pre-applied to suiteClass.
LoaderTimeout(timeout) == IF timeout # GLOBAL_DEFAULT_TIMEOUT THEN timeout ELSE NoneVal

\* The timeout argument LiveTestSuite.__init__ is called with.
SuiteClassTimeout ==
    CASE suite.entry = "LiveTestSuite"   -> suite.timeout
      [] suite.entry = "LiveTestLoader"  -> LoaderTimeout(suite.timeout)
      [] suite.entry = "LiveTestProgram" -> LoaderTimeout(ProgramTimeout(suite.timeout))

\* timeout=self._timeout or None, the timeout of socket.create_connection.
ProbeTimeout == OrNone(self.timeout)

\* The address socket.create_connection is given: (_LOCALHOST, self._port).
ProbeTarget == [host |-> Str(LOCALHOST), port |-> self.port]

\* A connection to the probe's target is accepted: a server has the port
\* bound on that address or on every address.
Accepting ==
    /\ listener # NoneVal
    /\ listener.port = ProbeTarget.port
    /\ listener.host \in {ProbeTarget.host, Str("0.0.0.0")}

\* No case instance is driven directly: the tests belong to the suite.
NoCase ==
    /\ cls = NoneVal
    /\ pc = "absent"
    /\ internal_method = "none"
    /\ bindings = Originals
    /\ orig = Originals
    /\ app = NoneVal
    /\ client = NoneVal
    /\ create_app_result = NoneVal
    /\ openClients = {}
    /\ exc = "none"
    /\ raised = "none"
    /\ result = << >>
    /\ log = << >>
    /\ runs = 0
    /\ created = 0
    /\ classDict = Originals
    /\ otherDict = << >>

SuiteInit ==
    /\ suite \in Suites
    /\ tests = << >>
    /\ net \in {"normal", "drop"}
    /\ self = NoneVal
    /\ spc = "new"
    /\ threads = << >>
    /\ listener = NoneVal
    /\ probe = "none"
    /\ fields = << >>
    /\ queue = << >>
    /\ executed = << >>
    /\ sresult = << >>
    /\ sraised = "none"
    /\ sdebug = FALSE
    /\ sruns = 0
    /\ NoCase

\* The test instances are constructed and the suite is built over them.
\* ClientTestCase.__init__ raises when the class has no app;
\* LiveTestSuite.__init__ reads HOST and PORT from the application's config.
Build ==
    /\ spc = "new"
    /\ IF \E l \in Leaves : l.cls = "ClientTestCase" /\ ~Truthy(l.app)
       THEN /\ spc' = "build_failed"
            /\ sraised' = "NotImplementedError"
            /\ UNCHANGED <<fields, self, tests>>
       ELSE /\ spc' = "ready"
            /\ tests' = suite.tests
            /\ fields' = [n \in {l.id : l \in Leaves} |->
                             ClassAttrs(CHOOSE l \in Leaves : l.id = n)]
            /\ self' = IF IsLive
                       THEN [app |-> suite.flask_app,
                             timeout |-> IF SuiteClassTimeout # GLOBAL_DEFAULT_TIMEOUT
                                         THEN SuiteClassTimeout ELSE NoneVal,
                             host |-> ConfigGet(suite.flask_app.config, "HOST", Str(DefaultHost)),
                             port |-> ConfigGet(suite.flask_app.config, "PORT", Num(DefaultPort))]
                       ELSE NoneVal
            /\ UNCHANGED sraised
    /\ UNCHANGED <<suite, net, threads, listener, probe, queue, executed, sresult, sdebug,
                   sruns>>
    /\ UNCHANGED caseVars

\* The test a caller adds to a suite that is built: a LiveTestCase to a
\* LiveTestSuite, an AppTestCase to a plain suite.
AddedTest == IF IsLive THEN LiveLeaf(AddedId) ELSE AppLeaf(AddedId, CreateAppPlain)

\* suite.addTest(test) between two runs: the test is appended to the suite's
\* tests, behind the Nones a run has left there.
AddTest ==
    /\ spc \in {"ready", "done", "raised"}
    /\ \A l \in Leaves : l.id # AddedId
    /\ tests' = Append(tests, AddedTest)
    /\ suite' = [suite EXCEPT !.tests = Append(@, AddedTest)]
    /\ fields' = [n \in DOMAIN fields \cup {AddedId} |->
                     IF n = AddedId THEN ClassAttrs(AddedTest) ELSE fields[n]]
    /\ UNCHANGED <<self, net, spc, threads, listener, probe, queue, executed, sresult,
                   sraised, sdebug, sruns>>
    /\ UNCHANGED caseVars

\* suite.run(result, debug) is called: LiveTestSuite.run starts with
\* _setup_server, the host's TestSuite.run with the first test.
SuiteRun ==
    /\ spc \in {"ready", "done", "raised"}
    /\ sruns < MaxSuiteRuns
    /\ sruns' = sruns + 1
    /\ sdebug' \in BOOLEAN
    /\ sraised' = "none"
    /\ probe' = "none"
    /\ executed' = << >>
    /\ IF IsLive
       THEN /\ spc' = "setup_server"
            /\ queue' = << >>
       ELSE /\ spc' = "running"
            /\ queue' = Schedule(tests)
    /\ UNCHANGED <<suite, tests, self, net, threads, listener, fields, sresult>>
    /\ UNCHANGED caseVars

\* _setup_server, first half: the thread that serves the application is
\* created, made a daemon and started.
SetupServer ==
    /\ spc = "setup_server"
    /\ threads' = Append(threads, [target |-> self.app, host |-> self.host,
                                   port |-> self.port, daemon |-> TRUE,
                                   state |-> "started", run |-> sruns, by |-> 0])
    /\ spc' = "probe"
    /\ UNCHANGED <<suite, tests, self, net, listener, probe, fields, queue, executed, sresult,
                   sraised, sdebug, sruns>>
    /\ UNCHANGED caseVars

\* The serving thread: app.run(host, port) binds the port and listens, or
\* fails because the port is taken.  The thread is a daemon, it serves until
\* the process ends.
ServerListen ==
    /\ \E i \in 1..Len(threads) :
          /\ threads[i].state = "started"
          /\ IF listener = NoneVal
             THEN /\ listener' = [thread |-> i, host |-> threads[i].host,
                                  port |-> threads[i].port]
                  /\ threads' = [threads EXCEPT ![i].state = "listening"]
             ELSE /\ threads' = [threads EXCEPT ![i].state = "failed"]
                  /\ UNCHANGED listener
    /\ UNCHANGED <<suite, tests, self, net, spc, probe, fields, queue, executed, sresult,
                   sraised, sdebug, sruns>>
    /\ UNCHANGED caseVars

\* Mutant of Probe: a failed connection attempt is caught and ignored.
ProbeIgnoringFailure ==
    /\ spc = "probe"
    /\ IF net = "drop"
       THEN probe' = "timeout"
       ELSE probe' = IF Accepting THEN "connected" ELSE "refused"
    /\ spc' = "setup_testcases"
    /\ UNCHANGED <<suite, tests, self, net, threads, listener, fields, queue, executed, sresult,
                   sraised, sdebug, sruns>>
    /\ UNCHANGED caseVars

\* Mutant of Probe: without a timeout an attempt nothing answers never ends.
ProbeBlockingWithoutTimeout ==
    /\ spc = "probe"
    /\ IF net = "drop"
       THEN /\ ProbeTimeout # NoneVal
            /\ probe' = "timeout"
            /\ sraised' = "timeout"
            /\ spc' = "raised"
       ELSE IF Accepting
            THEN /\ probe' = "connected"
                 /\ spc' = "setup_testcases"
                 /\ UNCHANGED sraised
            ELSE /\ probe' = "refused"
                 /\ sraised' = "ConnectionRefusedError"
                 /\ spc' = "raised"
    /\ UNCHANGED <<suite, tests, self, net, threads, listener, fields, queue, executed, sresult,
                   sdebug, sruns>>
    /\ UNCHANGED caseVars

\* _setup_server, second half: one socket.create_connection to
\* (_LOCALHOST, port) with timeout = self._timeout or None, closed at once.
\* It returns when the connection is accepted and raises at once when the
\* connection is refused.  When nothing answers it raises TimeoutError:
\* after the timeout, or without a timeout when the operating system gives
\* the attempt up.
Probe ==
    /\ spc = "probe"
    /\ IF net = "drop"
       THEN /\ probe' = "timeout"
            /\ sraised' = "timeout"
            /\ spc' = "raised"
       ELSE IF Accepting
            THEN /\ probe' = "connected"
                 /\ spc' = "setup_testcases"
                 /\ UNCHANGED sraised
            ELSE /\ probe' = "refused"
                 /\ sraised' = "ConnectionRefusedError"
                 /\ spc' = "raised"
    /\ UNCHANGED <<suite, tests, self, net, threads, listener, fields, queue, executed, sresult,
                   sdebug, sruns>>
    /\ UNCHANGED caseVars

\* The tests the suite's own _setup_testcases injects into: `for test in self`.
InjectedInto == InjectedBy(tests)

\* _setup_testcases is over: super().run(result, debug) takes the tests in
\* turn, or the AttributeError of _inject_properties(None) leaves run().
AfterSetupTestcases ==
    IF InjectFails(tests)
    THEN /\ spc' = "raised"
         /\ sraised' = "AttributeError"
         /\ UNCHANGED queue
    ELSE /\ spc' = "running"
         /\ queue' = Schedule(tests)
         /\ UNCHANGED sraised

\* Mutant of SetupTestcases: only the direct children are injected.
SetupTestcasesDirectOnly ==
    /\ spc = "setup_testcases"
    /\ fields' = [n \in DOMAIN fields |->
                     IF \E i \in 1..Len(tests) :
                            /\ IsNotSuite(tests[i]) /\ tests[i].id = n
                            /\ \A k \in 1..i : tests[k] # NoneTest
                     THEN [server_url |-> Url(LOCALHOST, self.port), app |-> self.app]
                     ELSE fields[n]]
    /\ AfterSetupTestcases
    /\ UNCHANGED <<suite, tests, self, net, threads, listener, probe, executed, sresult,
                   sdebug, sruns>>
    /\ UNCHANGED caseVars

\* Mutant of SetupTestcases: the URL is built from the configured host.
SetupTestcasesConfiguredHost ==
    /\ spc = "setup_testcases"
    /\ fields' = [n \in DOMAIN fields |->
                     IF n \in InjectedInto
                     THEN [server_url |-> Url(self.host.v, self.port), app |-> self.app]
                     ELSE fields[n]]
    /\ AfterSetupTestcases
    /\ UNCHANGED <<suite, tests, self, net, threads, listener, probe, executed, sresult,
                   sdebug, sruns>>
    /\ UNCHANGED caseVars

\* _setup_testcases, then super().run(result, debug) takes over.
SetupTestcases ==
    /\ spc = "setup_testcases"
    /\ fields' = [n \in DOMAIN fields |->
                     IF n \in InjectedInto
                     THEN [server_url |-> Url(LOCALHOST, self.port), app |-> self.app]
                     ELSE fields[n]]
    /\ AfterSetupTestcases
    /\ UNCHANGED <<suite, tests, self, net, threads, listener, probe, executed, sresult,
                   sdebug, sruns>>
    /\ UNCHANGED caseVars

\* What the body of a leaf test reads from its instance: a LiveTestCase
\* reads self.server_url and self.app, the other classes read neither.
Reads(t) ==
    IF t.cls = "LiveTestCase"
    THEN [server_url |-> GetAttr(fields[t.id], "server_url"),
          app |-> GetAttr(fields[t.id], "app")]
    ELSE [server_url |-> Absent, app |-> Absent]

\* How setUp, the test method and tearDown of a leaf test may end.
BodyOutcomes(t) ==
    IF AttributeError \in {Reads(t).server_url, Reads(t).app}
    THEN {"AttributeError"}
    ELSE {"ok", "AssertionError"}

\* What provisioning raises out of the test's run()/debug() before its body.
ProvisionError(t) ==
    CASE t.cls = "AppTestCase"    -> InstantiateAppError(t.create_app)
      [] t.cls = "ClientTestCase" -> IF IsFlask(t.app) THEN "none" ELSE "AttributeError"
      [] OTHER                    -> "none"

\* What the host's test(result) or test.debug() raises when the element is
\* the None of a test run before: None is not callable and has no debug.
NoneCallError == IF sdebug THEN "AttributeError" ELSE "TypeError:not_callable"

\* What _teardown_create_app_result raises after the body of an AppTestCase:
\* a generator create_app is resumed and has to terminate.
TeardownError(t) ==
    IF t.cls = "AppTestCase" /\ t.create_app.isgen
    THEN LET r == GenNext(GenNext(Generator, t.create_app.body).g, t.create_app.body)
         IN CASE r.out = "stop"  -> "none"
              [] r.out = "yield" -> "TypeError:yield_multiple"
              [] r.out = "raise" -> r.v
    ELSE "none"

\* The body of the next test executes and ends with outcome o: recorded in
\* the result sink, or under debug raised out of the suite's run().  What
\* the disposal of the application raises after the body leaves the test's
\* run()/debug() and the suite's run().  A test that returned is replaced
\* by None in its suite.
Execute(t, o) ==
    /\ executed' = Append(executed, [id |-> t.id, read |-> Reads(t), out |-> o])
    /\ sresult' = IF o # "ok" /\ ~sdebug
                  THEN Append(sresult,
                         [run |-> sruns, id |-> t.id, exc |-> o,
                          kind |-> IF o = "AssertionError" THEN "failure" ELSE "error"])
                  ELSE sresult
    /\ IF TeardownError(t) # "none"
       THEN /\ spc' = "raised"
            /\ sraised' = TeardownError(t)
            /\ UNCHANGED <<queue, tests>>
       ELSE IF o # "ok" /\ sdebug
            THEN /\ spc' = "raised"
                 /\ sraised' = o
                 /\ UNCHANGED <<queue, tests>>
            ELSE /\ queue' = Tail(queue)
                 /\ tests' = RemoveTest(tests, t.id)
                 /\ UNCHANGED <<spc, sraised>>

\* Mutant of RunTest: every LiveTestCase starts the server for itself.
RunTestStartingServer ==
    /\ spc = "running"
    /\ queue # << >>
    /\ ~Head(queue).isSuite
    /\ LET t == Head(queue)
       IN /\ \E o \in BodyOutcomes(t) : Execute(t, o)
          /\ threads' = IF t.cls = "LiveTestCase" /\ IsLive
                        THEN Append(threads, [target |-> self.app, host |-> self.host,
                                              port |-> self.port, daemon |-> TRUE,
                                              state |-> "started", run |-> sruns,
                                              by |-> t.id])
                        ELSE threads
    /\ UNCHANGED <<suite, self, net, listener, probe, fields, sdebug, sruns>>
    /\ UNCHANGED caseVars

\* Mutant of RunTest: a missing create_app is found out when the
\* application is first used, after the body has started.
RunTestDeferringError ==
    /\ spc = "running"
    /\ queue # << >>
    /\ ~Head(queue).isSuite
    /\ LET t == Head(queue)
       IN IF ProvisionError(t) # "none"
          THEN /\ executed' = Append(executed, [id |-> t.id, read |-> Reads(t),
                                                out |-> ProvisionError(t)])
               /\ spc' = "raised"
               /\ sraised' = ProvisionError(t)
               /\ UNCHANGED <<queue, sresult, tests>>
          ELSE \E o \in BodyOutcomes(t) : Execute(t, o)
    /\ UNCHANGED <<suite, self, net, threads, listener, probe, fields, sdebug, sruns>>
    /\ UNCHANGED caseVars

\* The host's TestSuite.run takes the next test and calls test(result), or
\* test.debug() under debug.  What the test's provisioning raises is not
\* caught by the host: it leaves the suite's run() and the tests after it
\* are not run.
RunTest ==
    /\ spc = "running"
    /\ queue # << >>
    /\ ~Head(queue).isSuite
    /\ LET t == Head(queue)
       IN IF t = NoneTest
          THEN /\ spc' = "raised"
               /\ sraised' = NoneCallError
               /\ UNCHANGED <<queue, executed, sresult, tests>>
          ELSE IF ProvisionError(t) # "none"
               THEN /\ spc' = "raised"
                    /\ sraised' = ProvisionError(t)
                    /\ UNCHANGED <<queue, executed, sresult, tests>>
               ELSE \E o \in BodyOutcomes(t) : Execute(t, o)
    /\ UNCHANGED <<suite, self, net, threads, listener, probe, fields, sdebug, sruns>>
    /\ UNCHANGED caseVars

\* The host's TestSuite.run reaches a child that is a LiveTestSuite and calls
\* it.  The child was built from the same flask_app and timeout, its fields
\* are those of the outer suite.  Its run() begins with _setup_server: a
\* serving thread of its own for the same application and port is started.
ChildSetupServer ==
    /\ spc = "running"
    /\ queue # << >>
    /\ Head(queue).isSuite
    /\ threads' = Append(threads, [target |-> self.app, host |-> self.host,
                                   port |-> self.port, daemon |-> TRUE,
                                   state |-> "started", run |-> sruns,
                                   by |-> Head(queue).id])
    /\ spc' = "child_probe"
    /\ UNCHANGED <<suite, tests, self, net, listener, probe, fields, queue, executed, sresult,
                   sraised, sdebug, sruns>>
    /\ UNCHANGED caseVars

\* The child's _setup_server goes on: its own socket.create_connection, with
\* the outcomes of Probe.  `probe` keeps the outcome of the outer suite's.
ChildProbe ==
    /\ spc = "child_probe"
    /\ IF net = "drop"
       THEN /\ sraised' = "timeout"
            /\ spc' = "raised"
       ELSE IF Accepting
            THEN /\ spc' = "child_setup_testcases"
                 /\ UNCHANGED sraised
            ELSE /\ sraised' = "ConnectionRefusedError"
                 /\ spc' = "raised"
    /\ UNCHANGED <<suite, tests, self, net, threads, listener, probe, fields, queue, executed,
                   sresult, sdebug, sruns>>
    /\ UNCHANGED caseVars

\* The child's _setup_testcases injects into its own tests; then the child's
\* super().run hands them to the host in turn.
ChildSetupTestcases ==
    /\ spc = "child_setup_testcases"
    /\ fields' = [n \in DOMAIN fields |->
                     IF n \in InjectedBy(Head(queue).tests)
                     THEN [server_url |-> Url(LOCALHOST, self.port), app |-> self.app]
                     ELSE fields[n]]
    /\ IF InjectFails(Head(queue).tests)
       THEN /\ spc' = "raised"
            /\ sraised' = "AttributeError"
            /\ UNCHANGED queue
       ELSE /\ spc' = "running"
            /\ queue' = Tail(queue)
            /\ UNCHANGED sraised
    /\ UNCHANGED <<suite, tests, self, net, threads, listener, probe, executed, sresult,
                   sdebug, sruns>>
    /\ UNCHANGED caseVars

\* Mutant of SuiteReturn: run() shuts the server down and joins the serving
\* thread before it returns.
SuiteReturnStoppingServer ==
    /\ spc = "running"
    /\ queue = << >>
    /\ \A i \in 1..Len(threads) : threads[i].state # "started"
    /\ threads' = [i \in 1..Len(threads) |-> [threads[i] EXCEPT !.state = "stopped"]]
    /\ listener' = NoneVal
    /\ spc' = "done"
    /\ UNCHANGED <<suite, tests, self, net, probe, fields, queue, executed,
                   sresult, sraised, sdebug, sruns>>
    /\ UNCHANGED caseVars

\* Every test was run: the suite's run() returns the result.
SuiteReturn ==
    /\ spc = "running"
    /\ queue = << >>
    /\ spc' = "done"
    /\ UNCHANGED <<suite, tests, self, net, threads, listener, probe, fields, queue, executed,
                   sresult, sraised, sdebug, sruns>>
    /\ UNCHANGED caseVars

SuiteNext ==
    \/ Build
    \/ AddTest
    \/ SuiteRun
    \/ SetupServer
    \/ ServerListen
    \/ Probe
    \/ SetupTestcases
    \/ RunTest
    \/ ChildSetupServer
    \/ ChildProbe
    \/ ChildSetupTestcases
    \/ SuiteReturn

SpecSuite == SuiteInit /\ [][SuiteNext]_vars

(***************************************************************************)
(* Reading the state of a suite run                                        *)
(***************************************************************************)
\* The leaf tests that are direct children of the suite or members of a
\* child suite, read off the tree.
NearLeaves ==
    {l \in Leaves :
        \/ \E i \in 1..Len(suite.tests) : suite.tests[i] = l
        \/ \E i \in 1..Len(suite.tests) :
              /\ suite.tests[i].isSuite
              /\ \E k \in 1..Len(suite.tests[i].tests) : suite.tests[i].tests[k] = l}

\* The LiveTestCases no LiveTestSuite has injected anything into.
Uninjected ==
    {l \in Leaves :
        /\ l.cls = "LiveTestCase"
        /\ \/ ~IsLive
           \/ /\ l \notin NearLeaves
              /\ \A i \in 1..Len(Schedule(suite.tests)) :
                    Schedule(suite.tests)[i].isSuite =>
                        l.id \notin InjectedBy(Schedule(suite.tests)[i].tests)}

Leaf(n) == CHOOSE l \in Leaves : l.id = n

\* The serving threads the current run() call started.
StartedByRun(r) == {i \in 1..Len(threads) : threads[i].run = r}

\* The URL with the host spelled 127.0.0.1 and the configured port.
LoopbackUrl ==
    IF suite.flask_app.config.PORT = Absent
    THEN Str("http://127.0.0.1:5000")
    ELSE Str("http://127.0.0.1:" \o ToString(suite.flask_app.config.PORT.v))

\* The URL with the configured host and the configured port.
ConfiguredUrl ==
    LET host == IF suite.flask_app.config.HOST = Absent
                THEN "127.0.0.1" ELSE suite.flask_app.config.HOST.v
        port == IF suite.flask_app.config.PORT = Absent
                THEN "5000" ELSE ToString(suite.flask_app.config.PORT.v)
    IN Str("http://" \o host \o ":" \o port)

ReadinessErrors == {"ConnectionRefusedError", "timeout"}

(***************************************************************************)
(* C11: when LiveTestSuite.run() goes on to execute tests, every leaf test *)
(* that is a direct child of the suite or a member of a directly nested    *)
(* child suite has, before the first test body starts, one and the same    *)
(* server_url, a string, and as app the application the suite was built    *)
(* with, which is the one the serving thread serves; the bodies read these *)
(* values.                                                                 *)
(***************************************************************************)
C11_InjectedBeforeFirstBody ==
    (IsLive /\ spc = "running") =>
        /\ \A l \in NearLeaves :
              /\ fields[l.id].server_url.t = "str"
              /\ \A m \in NearLeaves : fields[m.id].server_url = fields[l.id].server_url
              /\ fields[l.id].app = suite.flask_app
              /\ \E i \in StartedByRun(sruns) : threads[i].target = fields[l.id].app
        /\ \A i \in 1..Len(executed) :
              Leaf(executed[i].id) \in NearLeaves =>
                  executed[i].read = fields[executed[i].id]

C11_Witness ==
    /\ IsLive
    /\ spc = "running"
    /\ sruns = 1
    /\ executed = << >>
    /\ \E i \in 1..Len(suite.tests) : suite.tests[i].isSuite /\ Len(suite.tests[i].tests) = 2
    /\ fields[1].server_url = fields[3].server_url
    /\ fields[2].app = suite.flask_app

(***************************************************************************)
(* C12 as stated: the injected server_url is "http://<host>:<port>" with   *)
(* the configured HOST (default 127.0.0.1) and PORT (default 5000).        *)
(* Violated when HOST is configured to anything but 127.0.0.1.             *)
(***************************************************************************)
C12_UrlOfConfiguredHostAndPort ==
    (IsLive /\ spc = "running") =>
        \A l \in NearLeaves : fields[l.id].server_url = ConfiguredUrl

(***************************************************************************)
(* C12, amended: the injected server_url is "http://127.0.0.1:<port>",     *)
(* the host part being the literal 127.0.0.1 whatever HOST is configured   *)
(* and the port the configured PORT (default 5000).                        *)
(***************************************************************************)
C12_UrlOfLoopbackAndConfiguredPort ==
    (IsLive /\ spc = "running") =>
        \A l \in NearLeaves : fields[l.id].server_url = LoopbackUrl

C12_Witness ==
    /\ IsLive
    /\ suite.flask_app.config.HOST = Str("0.0.0.0")
    /\ executed # << >>
    /\ executed[1].read.server_url = Str("http://127.0.0.1:8080")

(***************************************************************************)
(* C13: when the readiness probe of a LiveTestSuite fails (the connection  *)
(* is refused or times out), run() raises to its caller before any         *)
(* contained test executes: nothing is injected or queued, no body runs,   *)
(* and the result sink receives no outcome from this run.                  *)
(***************************************************************************)
C13_ProbeFailureRaisesBeforeAnyTest ==
    (IsLive /\ probe \in {"refused", "timeout"}) =>
        /\ spc = "raised"
        /\ sraised \in ReadinessErrors
        /\ queue = << >>
        /\ executed = << >>
        /\ \A i \in 1..Len(sresult) : sresult[i].run # sruns

C13_Witness ==
    /\ IsLive
    /\ suite.tests # << >>
    /\ probe = "refused"
    /\ spc = "raised"
    /\ sraised = "ConnectionRefusedError"

(***************************************************************************)
(* C14: the readiness wait blocks until a connection succeeds or the       *)
(* timeout elapses: when the server accepts connections on the port and    *)
(* the timeout has not elapsed, the probe has not failed.                  *)
(* Violated: the probe is a single connection attempt; made before the     *)
(* serving thread has bound the port it is refused at once, and run()      *)
(* raises although the server starts accepting right after.                *)
(***************************************************************************)
C14_ProbeWaitsForServer ==
    (IsLive /\ net = "normal" /\ Accepting) => probe # "refused"

(***************************************************************************)
(* C15: one run() call of a LiveTestSuite starts the serving thread        *)
(* exactly once, before any test executes and however many tests the suite *)
(* contains; no test starts a server, and a suite that is no LiveTestSuite *)
(* starts none.  (The threads that the run() calls of child LiveTestSuites *)
(* start are theirs: each such call starts one; see C30.)                  *)
(***************************************************************************)
C15_ServerStartedOncePerRun ==
    /\ ~IsLive => threads = << >>
    /\ IsLive =>
          \A r \in 1..sruns :
              Cardinality({i \in StartedByRun(r) : threads[i].by = 0})
                  = IF r = sruns /\ spc = "setup_server" THEN 0 ELSE 1
    /\ \A i \in 1..Len(threads) :
          /\ threads[i].by \notin {l.id : l \in Leaves}
          /\ \A j \in 1..Len(threads) :
                (threads[j].run = threads[i].run /\ threads[j].by = threads[i].by) => j = i
    /\ executed # << >> /\ IsLive => \E i \in StartedByRun(sruns) : threads[i].by = 0

C15_Witness ==
    /\ IsLive
    /\ spc = "done"
    /\ sruns = 1
    /\ Len(executed) = 3
    /\ Len(threads) = 1

(***************************************************************************)
(* C16 as stated: reading server_url on a LiveTestCase that no             *)
(* LiveTestSuite has injected fails with AttributeError, never yields      *)
(* None.  Violated: the class declares server_url = None.                  *)
(***************************************************************************)
C16_UninjectedReadFails ==
    \A i \in 1..Len(executed) :
        Leaf(executed[i].id) \in Uninjected => executed[i].read.server_url = AttributeError

(***************************************************************************)
(* C16, amended: reading server_url (or app) on a LiveTestCase that no     *)
(* LiveTestSuite has injected yields None, the class default; it raises    *)
(* no AttributeError.                                                      *)
(***************************************************************************)
C16_UninjectedReadYieldsNone ==
    \A i \in 1..Len(executed) :
        Leaf(executed[i].id) \in Uninjected =>
            /\ executed[i].read.server_url = NoneVal
            /\ executed[i].read.app = NoneVal
            /\ executed[i].out # "AttributeError"

C16_Witness ==
    /\ IsLive
    /\ Len(executed) = 2
    /\ Leaf(2) \in Uninjected
    /\ executed[1].read.server_url = LoopbackUrl
    /\ executed[2].read.server_url = NoneVal

(***************************************************************************)
(* C20 as stated: a usage error or a readiness failure surfaces before any *)
(* test of the run has executed.  Violated: an AppTestCase without         *)
(* create_app raises when that test is reached, after the tests before it  *)
(* in the suite have executed.                                             *)
(***************************************************************************)
C20_ErrorBeforeAnyTestOfTheRun ==
    sraised \in ReadinessErrors \cup {"NotImplementedError"} => executed = << >>

(***************************************************************************)
(* C20, amended: a usage error or a readiness failure surfaces before the  *)
(* tests it concerns execute.  A ClientTestCase without app fails when it  *)
(* is constructed, before any run; a readiness failure is raised before    *)
(* any test of the LiveTestSuite executes; an AppTestCase without          *)
(* create_app raises out of the run when that test is reached, before its  *)
(* setUp, test method and tearDown, and no test of such a class ever       *)
(* executes, while tests earlier in the suite may have executed.           *)
(***************************************************************************)
C20_ErrorBeforeTheTestsConcerned ==
    /\ spc = "build_failed" => sruns = 0 /\ executed = << >> /\ sraised = "NotImplementedError"
    /\ sraised \in ReadinessErrors => executed = << >>
    /\ (spc = "raised" /\ sraised = "NotImplementedError") =>
          /\ Head(queue).create_app = CreateAppNotOverridden
          /\ \A i \in 1..Len(executed) : executed[i].id # Head(queue).id
    /\ \A i \in 1..Len(executed) : ProvisionError(Leaf(executed[i].id)) = "none"

C20_Witness ==
    /\ spc = "raised"
    /\ sraised = "NotImplementedError"
    /\ Len(executed) = 1
    /\ executed[1].out = "ok"

(***************************************************************************)
(* Claims about one case instance, continued (specification Spec)          *)
(***************************************************************************)
\* An assertion failed inside setUp, the test method or tearDown.
AssertionFailed == \E i \in Entered : log[i].out = "AssertionError"

\* The result holds a failure of this invocation for the call at log position i.
Recorded(i) ==
    \E j \in 1..Len(result) :
        /\ result[j].run = runs
        /\ result[j].part = log[i].ev
        /\ result[j].exc = log[i].out

\* What disposal of the application can raise in place of the body's exception.
DisposalErrors == {"TypeError:yield_multiple", "CleanupError"}

C22_DisposalBeforeRestore ==
    \A i \in Positions({"restore"}) :
        /\ HasTeardownCreateAppResult =>
              \E j \in Positions({"teardown", "gen_resume"}) : j < i
        /\ Count("client_open") = 1 =>
              \E j \in Positions({"client_close"}) : j < i

(***************************************************************************)
(* C23: every application provisioned from a generator create_app is       *)
(* resumed exactly once before run()/debug() returns or raises, on every   *)
(* exit path after provisioning.                                           *)
(* Violated: in AppClientTestCase, when test_client(...) raises after the  *)
(* application was provisioned, the error leaves before the try/finally    *)
(* that resumes the generator is entered.                                  *)
(***************************************************************************)
C23_GeneratorResumedOnEveryExit ==
    (Leaving /\ \E i \in Positions({"gen_start"}) : log[i].out = "yield") =>
        Count("gen_resume") = 1

(***************************************************************************)
(* C24: the three bindings are the resource-bound partials while the host  *)
(* framework's execution primitive is running and the originals before an  *)
(* invocation has rebound them and after it is over.                       *)
(* Violated through C2: when disposal raises, the bindings are not         *)
(* restored and stay partials while the instance is idle; the next         *)
(* invocation pre-applies its resources on top of them.                    *)
(***************************************************************************)
C24_PartialsOnlyWhileActive ==
    /\ pc \in {"new", "ctor_failed", "idle", "instantiate_app", "open_client", "override",
               "client_exit", "return"} => bindings = Originals
    /\ pc \in {"setUp", "testMethod", "tearDown"} => bindings = [m \in Methods |-> TestArgs]

(***************************************************************************)
(* C25: each call of run() or debug() calls the host framework's execution *)
(* primitive exactly once: once provisioning succeeded, setUp is attempted *)
(* once and the test method and tearDown at most once, in this order;      *)
(* nothing is attempted when provisioning failed.  run() uses the          *)
(* result-collecting primitive (what a call raises is recorded in the      *)
(* given result, the invocation goes on), debug() the re-raising one       *)
(* (nothing is recorded, the first failing call is the last one).          *)
(***************************************************************************)
C25_PrimitiveCalledOnce ==
    /\ Cardinality(Attempted) <= 3
    /\ \A m \in Methods : Count(m) <= 1
    /\ \A i \in Positions({"setUp"}) : \A j \in Positions({"test", "tearDown"}) : i < j
    /\ \A i \in Positions({"test"}) : \A j \in Positions({"tearDown"}) : i < j
    /\ ~InTryFinally => Attempted = {}
    /\ (InTryFinally /\ Leaving) => Attempted # {}
    /\ \A i \in Attempted :
          log[i].out # "ok" =>
              IF internal_method = "run"
              THEN \E j \in 1..Len(result) : result[j].run = runs /\ result[j].exc = log[i].out
              ELSE /\ \A j \in 1..Len(result) : result[j].run # runs
                   /\ \A k \in Attempted : k <= i

C25_Witness ==
    /\ internal_method = "debug"
    /\ pc = "idle"
    /\ raised = "none"
    /\ Count("setUp") = 1
    /\ Count("test") = 1
    /\ Count("tearDown") = 1
    /\ result = << >>

(***************************************************************************)
(* C26: in AppClientTestCase the application is provisioned first and the  *)
(* client is opened second, on the application provisioned in that same    *)
(* invocation, with the case's cookie flag and with client options the     *)
(* client class accepts.                                                   *)
(***************************************************************************)
C26_ClientOpenedOnThisInvocationsApp ==
    (cls.kind = "AppClientTestCase" /\ Count("client_open") = 1) =>
        /\ Count("create_app") = 1
        /\ \A i \in Positions({"create_app", "gen_start", "returned"}) :
              \A j \in Positions({"client_open"}) : i < j
        /\ Opened.app = Produced.id
        /\ Produced = app
        /\ Opened.use_cookies = cls.test_client_use_cookies
        /\ cls.test_client_kwargs = "valid"
        /\ Opened = client

C26_Witness ==
    /\ cls.kind = "AppClientTestCase"
    /\ runs = 2
    /\ Count("client_open") = 1
    /\ ~cls.test_client_use_cookies
    /\ Opened.app = 3
    /\ pc = "testMethod"

(***************************************************************************)
(* C27: ClientTestCase opens every client on the one application bound to  *)
(* the class and never makes or disposes an application: in every          *)
(* invocation create_app is not called, nothing is torn down or resumed,   *)
(* and the client's application is the class's app.                        *)
(***************************************************************************)
C27_ClientCaseLeavesApplicationAlone ==
    cls.kind = "ClientTestCase" =>
        /\ Count("create_app") = 0
        /\ Count("teardown") = 0
        /\ Count("gen_resume") = 0
        /\ app = NoneVal
        /\ create_app_result = NoneVal
        /\ Count("client_open") = 1 => Opened.app = cls.app.id
        /\ \A i \in Entered : log[i].args = <<Opened>>

C27_Witness ==
    /\ cls.kind = "ClientTestCase"
    /\ runs = 2
    /\ pc = "idle"
    /\ Count("client_open") = 1
    /\ Count("client_close") = 1
    /\ Opened.app = 0
    /\ Opened.id = 2

(***************************************************************************)
(* Claims about a suite run, continued (specification SpecSuite)           *)
(***************************************************************************)
\* The address the i-th serving thread binds: app.run(host, port).
ServerAddress(i) == [host |-> threads[i].host, port |-> threads[i].port]

(***************************************************************************)
(* C28: the readiness probe connects to the same (host, port) of the suite *)
(* configuration that the serving thread is bound to, for every configured *)
(* host.  Violated: the thread binds the configured HOST, the probe always *)
(* connects to 127.0.0.1.                                                  *)
(***************************************************************************)
C28_ProbeConnectsWhereServerBinds ==
    (IsLive /\ probe # "none") =>
        \A i \in StartedByRun(sruns) : ProbeTarget = ServerAddress(i)

(***************************************************************************)
(* C29: when the application never gets ready, run() does not block        *)
(* forever: whenever run() is waiting in the readiness probe, the probe    *)
(* can end, for every suite configuration, the default timeout included;   *)
(* and when nothing answers the connection attempt, the wait has ended     *)
(* with a timeout error raised out of run().                               *)
(***************************************************************************)
C29_ReadinessWaitCanEnd ==
    IsLive =>
        /\ spc = "probe" => ENABLED Probe
        /\ (net = "drop" /\ probe # "none") =>
              /\ probe = "timeout"
              /\ spc = "raised"
              /\ sraised = "timeout"

C29_Witness ==
    /\ IsLive
    /\ net = "drop"
    /\ suite.timeout = GLOBAL_DEFAULT_TIMEOUT
    /\ probe = "timeout"
    /\ spc = "raised"
    /\ sraised = "timeout"
    /\ ProbeTimeout = NoneVal

(***************************************************************************)
(* C30: when a LiveTestSuite contains child LiveTestSuites on the same     *)
(* application, as the tree LiveTestLoader builds does, one run of the     *)
(* top-level suite starts only one serving thread; the child suites start  *)
(* none.  Violated: every child LiveTestSuite is run through its own       *)
(* run(), which starts another thread serving the same port.               *)
(***************************************************************************)
C30_OneServerThreadPerTopLevelRun ==
    IsLive => \A r \in 1..sruns : Cardinality(StartedByRun(r)) <= 1

\* The thread whose app.run holds the port.
ServingThread == threads[listener.thread]

(***************************************************************************)
(* C31: the serving thread is a daemon from the moment it is started and   *)
(* is never joined or stopped.  Once the probe has succeeded and every     *)
(* contained test has finished, LiveTestSuite.run() returns without        *)
(* waiting for the thread, and after the return the server is still        *)
(* running.                                                                *)
(***************************************************************************)
C31_RunReturnsWhileServerRuns ==
    IsLive =>
        /\ \A i \in 1..Len(threads) :
              /\ threads[i].daemon
              /\ threads[i].state \in {"started", "listening", "failed"}
        /\ (spc = "running" /\ queue = << >>) => ENABLED SuiteReturn
        /\ (probe = "connected" /\ spc \in {"setup_testcases", "running", "done"}) =>
              /\ listener # NoneVal
              /\ ServingThread.state = "listening"
              /\ ServingThread.target = self.app

C31_Witness ==
    /\ IsLive
    /\ spc = "done"
    /\ probe = "connected"
    /\ Len(executed) = 2
    /\ ServingThread.state = "listening"
    /\ ServingThread.run = sruns

(***************************************************************************)
(* C32 as stated: every LiveTestCase whose body is executed as part of a   *)
(* LiveTestSuite run, at whatever depth of plain sub-suites it sits, has a *)
(* server_url and an app that are not None when its body starts.           *)
(* Violated: _setup_testcases descends one level, a LiveTestCase inside a  *)
(* sub-suite of a sub-suite starts with both fields None.                  *)
(***************************************************************************)
C32_InjectedAtEveryDepth ==
    IsLive =>
        \A i \in 1..Len(executed) :
            Leaf(executed[i].id).cls = "LiveTestCase" =>
                /\ executed[i].read.server_url # NoneVal
                /\ executed[i].read.app # NoneVal

\* getattr(other, m) on another instance of the class: the attribute of the
\* instance when it has one, else the attribute of the class.
OtherBindings ==
    [m \in Methods |-> IF m \in DOMAIN otherDict THEN otherDict[m] ELSE classDict[m]]

(***************************************************************************)
(* C33: an invocation changes the setUp/test/tearDown bindings of its own  *)
(* instance only.  At every point of it the three attributes of the class  *)
(* are the author's functions, and so is what another instance of the      *)
(* class finds under the three names, whether or not that instance has     *)
(* been run before.                                                        *)
(***************************************************************************)
C33_OtherInstancesAndClassUnchanged ==
    /\ classDict = Originals
    /\ OtherBindings = Originals
    /\ otherDict \in {<< >>, Originals}

C33_Witness ==
    /\ pc = "tearDown"
    /\ \A m \in Methods : bindings[m] = TestArgs /\ bindings[m] # OtherBindings[m]
    /\ otherDict = << >>
    /\ runs = 2

\* The timeout given at the entry point; leaving it out stands for none.
GivenTimeout == IF suite.timeout = GLOBAL_DEFAULT_TIMEOUT THEN NoneVal ELSE suite.timeout

(***************************************************************************)
(* C34 as stated: the timeout given to LiveTestProgram, LiveTestLoader or  *)
(* LiveTestSuite is the timeout of the readiness probe, unchanged for      *)
(* every value, and leaving it out gives a probe without timeout.          *)
(* Violated: a timeout of 0 reaches the suite unchanged and the probe      *)
(* turns it into no timeout.                                               *)
(***************************************************************************)
C34_TimeoutReachesProbeUnchanged ==
    (IsLive /\ spc = "probe") => ProbeTimeout = GivenTimeout

====
